---- MODULE Spec2Model ----
(***************************************************************************)
(* Virtual-memory page-replacement simulator (src/main.go).                *)
(*                                                                         *)
(* main parses a memory size, reads a reference trace, indexes the         *)
(* positions of every page, and replays the trace through the Optimal and  *)
(* the FIFO simulator.  One loop iteration of a simulator is one action.   *)
(* Trace indices are 0-based as in the source; TLA+ sequences are 1-based, *)
(* so pageReferences[i + 1] is the source's pageReferences[i].             *)
(***************************************************************************)
EXTENDS Integers, Sequences, FiniteSets, TLC

\* ------------------------------------------------------------- bounds
\* Longest enumerated trace, the largest frame count reached through a
\* "<n>KB" argument, and how many runs a caller that repeats them starts.
MaxLen == 5
MaxFrames == 4
MaxCalls == 3

\* Page identifiers of the enumerated traces (lines of the input file).
PageIDs == {"A", "B", "C"}

\* The reference trace of spec section 8 (four pages, ten references), the
\* five-page trace on which FIFO shows Belady's anomaly, and two traces whose
\* resident pages are referenced twice before an eviction, so that a cursor
\* has to move by more than one position at once (in the second one both
\* resident pages are referenced again afterwards).
TextbookTrace == <<"A", "B", "C", "A", "B", "D", "A", "B", "C", "D">>
AnomalyTrace == <<"A", "B", "C", "D", "A", "B", "E", "A", "B", "C", "D", "E">>
CursorTrace == <<"A", "A", "B", "B", "C", "D", "C">>
RevisitTrace == <<"B", "B", "A", "C", "A", "B">>

\* Byte order of the page identifiers used, for sort.Strings.
Alphabet == <<"A", "B", "C", "D", "E">>

Traces ==
    UNION {[1..n -> PageIDs] : n \in 0..MaxLen} \cup {TextbookTrace, AnomalyTrace, CursorTrace, RevisitTrace}

\* The input file: its lines, or NoFile when os.Open fails.
NoFile == [missing |-> TRUE, lines |-> <<>>]
Files == {[missing |-> FALSE, lines |-> t] : t \in Traces} \cup {NoFile}

\* ------------------------------------------------------------- constants
pageSizeBytes == 4 * 1024
sizeOfPTE == 4

\* A memory-size argument after TrimSpace/ToUpper: the text in front of the
\* unit suffix (num when it is a decimal integer, valid = FALSE otherwise)
\* and the suffix itself ("" when there is none).
MemorySizeStrs ==
    {[valid |-> FALSE, num |-> 0, unit |-> ""],
     [valid |-> TRUE, num |-> pageSizeBytes - 1, unit |-> ""],
     [valid |-> TRUE, num |-> 3, unit |-> "KB"],
     [valid |-> TRUE, num |-> 0 - 8, unit |-> "KB"],
     [valid |-> TRUE, num |-> 1, unit |-> "MB"]}
    \cup {[valid |-> TRUE, num |-> 4 * f + 3, unit |-> "KB"] : f \in 1..MaxFrames}

\* ------------------------------------------------------------- maps
\* A Go map is a function whose domain is the set of keys present.
EmptyMap == [p \in {} |-> 0]

\* m[k] for a map[string]int: the zero value when the key is absent.
MapGet(m, k) == IF k \in DOMAIN m THEN m[k] ELSE 0

MapSet(m, k, v) == [p \in DOMAIN m \cup {k} |-> IF p = k THEN v ELSE m[p]]

\* pagePositions[page] for a map[string][]int: nil (empty) when absent.
Positions(pagePositions, page) ==
    IF page \in DOMAIN pagePositions THEN pagePositions[page] ELSE <<>>

RECURSIVE SumValues(_)
SumValues(m) ==
    IF DOMAIN m = {} THEN 0
    ELSE LET k == CHOOSE p \in DOMAIN m : TRUE
         IN m[k] + SumValues([p \in DOMAIN m \ {k} |-> m[p]])

Range(s) == {s[k] : k \in DOMAIN s}

\* ------------------------------------------------------------- parsing
Multiplier(unit) ==
    CASE unit = "KB" -> 1024
      [] unit = "MB" -> 1024 * 1024
      [] unit = "GB" -> 1024 * 1024 * 1024
      [] OTHER -> 1

\* parseMemorySize: (0, err) when ParseInt fails, value * multiplier else.
\* main discards the error, so only the value is kept.  The arguments
\* enumerated stay far below 2^63, where the int64 product is exact.
parseMemorySize(sizeStr) ==
    IF sizeStr.valid THEN sizeStr.num * Multiplier(sizeStr.unit) ELSE 0

\* main's capacity guard: TRUE when the run is refused.
MemoryTooSmallBug(bytes) == bytes < 0
MemoryTooSmall(bytes) == bytes < pageSizeBytes

\* int(physicalMemoryBytes / pageSizeBytes); Go truncates toward zero.
FramesOf(bytes) ==
    IF bytes >= 0 THEN bytes \div pageSizeBytes
    ELSE 0 - ((0 - bytes) \div pageSizeBytes)

\* ------------------------------------------------------------- preprocessing
RECURSIVE BuildPositionsPrepend(_, _, _)
BuildPositionsPrepend(refs, i, acc) ==
    IF i >= Len(refs) THEN acc
    ELSE BuildPositionsPrepend(refs, i + 1,
            MapSet(acc, refs[i + 1], <<i>> \o Positions(acc, refs[i + 1])))
RECURSIVE BuildPositions(_, _, _)
BuildPositions(refs, i, acc) ==
    IF i >= Len(refs) THEN acc
    ELSE BuildPositions(refs, i + 1,
            MapSet(acc, refs[i + 1], Append(Positions(acc, refs[i + 1]), i)))

\* ------------------------------------------------------------- sort.Strings
Rank(p) == CHOOSE k \in 1..Len(Alphabet) : Alphabet[k] = p

RECURSIVE InsertSorted(_, _)
InsertSorted(s, p) ==
    IF s = <<>> THEN <<p>>
    ELSE IF Rank(p) <= Rank(Head(s)) THEN <<p>> \o s
    ELSE <<Head(s)>> \o InsertSorted(Tail(s), p)

RECURSIVE SortStrings(_)
SortStrings(s) ==
    IF s = <<>> THEN <<>> ELSE InsertSorted(SortStrings(Tail(s)), Head(s))

\* ------------------------------------------------------------- results
NewResultBug == [pageFaults |-> 1, loadCounts |-> EmptyMap]
NewResult == [pageFaults |-> 0, loadCounts |-> EmptyMap]

\* result.pageFaults++ ; result.loadCounts[page]++
CountFaultBug(result, page) ==
    [pageFaults |-> result.pageFaults + 1, loadCounts |-> result.loadCounts]
CountFault(result, page) ==
    [pageFaults |-> result.pageFaults + 1,
     loadCounts |-> MapSet(result.loadCounts, page,
                           MapGet(result.loadCounts, page) + 1)]

\* ------------------------------------------------------------- FIFO
\* fifoAlgorithm's locals on entry (pageInMmemorySet, memoryFrames, result)
\* and the index i of the next reference its loop will take.
FifoEnter ==
    [pageInMmemorySet |-> {}, memoryFrames |-> <<>>, result |-> NewResult, i |-> 0]

\* memoryFrames.Front() is nil when the list is empty, and reading its Value
\* is a nil dereference: only possible when Len() = numFrames = 0.
FifoPanics(st, page, numFrames) ==
    /\ page \notin st.pageInMmemorySet
    /\ Len(st.memoryFrames) = numFrames
    /\ st.memoryFrames = <<>>

\* The eviction of a miss: when the list is full its front element is removed
\* from the list and deleted from the set.
FifoEvictEarly(st, numFrames) ==
    IF Len(st.memoryFrames) >= 1 /\ Len(st.memoryFrames) >= numFrames - 1
    THEN [st EXCEPT !.memoryFrames = Tail(@),
                    !.pageInMmemorySet = @ \ {Head(st.memoryFrames)}]
    ELSE st
FifoEvictBug(st, numFrames) ==
    IF Len(st.memoryFrames) > numFrames
    THEN [st EXCEPT !.memoryFrames = Tail(@),
                    !.pageInMmemorySet = @ \ {Head(st.memoryFrames)}]
    ELSE st
FifoEvictKeepsSet(st, numFrames) ==
    IF Len(st.memoryFrames) = numFrames
    THEN [st EXCEPT !.memoryFrames = Tail(@)]
    ELSE st
FifoEvict(st, numFrames) ==
    IF Len(st.memoryFrames) = numFrames
    THEN [st EXCEPT !.memoryFrames = Tail(@),
                    !.pageInMmemorySet = @ \ {Head(st.memoryFrames)}]
    ELSE st

\* evictedPage: the page the eviction removed, "" when there was none.
FifoEvicted(st, numFrames) ==
    IF FifoEvict(st, numFrames).memoryFrames # st.memoryFrames
    THEN Head(st.memoryFrames) ELSE ""

\* The miss branch: count the fault, evict when full, push the page back.
FifoMiss(st, page, numFrames) ==
    LET counted == [st EXCEPT !.result = CountFault(@, page)]
        room == FifoEvict(counted, numFrames)
    IN [room EXCEPT !.memoryFrames = Append(@, page),
                    !.pageInMmemorySet = @ \cup {page}]

\* The didactic dump of the list: walks it front to back into framesState.
\* memoryFrames is what the list holds afterwards.
FifoShowState(memoryFrames, didacticMode) ==
    [memoryFrames |-> memoryFrames,
     framesState |-> IF didacticMode THEN memoryFrames ELSE <<>>]

\* One iteration of fifoAlgorithm's loop that does not panic.
FifoBodyMoveOnHit(st, page, numFrames, didacticMode) ==
    LET IsOther(q) == q # page
        after == IF page \notin st.pageInMmemorySet
                 THEN FifoMiss(st, page, numFrames)
                 ELSE [st EXCEPT !.memoryFrames =
                                     Append(SelectSeq(@, IsOther), page)]
    IN [after EXCEPT !.i = @ + 1]
FifoBody(st, page, numFrames, didacticMode) ==
    LET after == IF page \notin st.pageInMmemorySet
                 THEN FifoMiss(st, page, numFrames) ELSE st
        shown == FifoShowState(after.memoryFrames, didacticMode)
    IN [after EXCEPT !.memoryFrames = shown.memoryFrames, !.i = @ + 1]

\* What an iteration prints in didactic mode.
FifoNarration(st, page, numFrames) ==
    LET fault == page \notin st.pageInMmemorySet
        after == IF fault THEN FifoMiss(st, page, numFrames) ELSE st
    IN [alg |-> "FIFO", passo |-> st.i + 1, page |-> page, fault |-> fault,
        evicted |-> IF fault THEN FifoEvicted(st, numFrames) ELSE "",
        estado |-> FifoShowState(after.memoryFrames, TRUE).framesState]

\* The states of a whole run, from entry to return (numFrames >= 1).
RECURSIVE FifoTrail(_, _, _, _)
FifoTrail(st, pageReferences, numFrames, didacticMode) ==
    IF st.i >= Len(pageReferences) THEN <<st>>
    ELSE <<st>> \o FifoTrail(FifoBody(st, pageReferences[st.i + 1], numFrames,
                                      didacticMode),
                             pageReferences, numFrames, didacticMode)

fifoAlgorithm(pageReferences, numFrames, didacticMode) ==
    LET trail == FifoTrail(FifoEnter, pageReferences, numFrames, didacticMode)
    IN trail[Len(trail)].result

\* ------------------------------------------------------------- Optimal
\* optimalAlgorithmOptimized's locals on entry, and its loop index i.
OptimalEnter ==
    [pageInMmemorySet |-> {}, memoryFrames |-> <<>>, result |-> NewResult,
     nextUseCursor |-> EmptyMap, i |-> 0]

\* for cursor < len(positions) && positions[cursor] <= i { cursor++ }
AdvanceCursorOnce(positions, cursor, i) ==
    IF cursor < Len(positions) /\ positions[cursor + 1] <= i
    THEN cursor + 1 ELSE cursor
RECURSIVE AdvanceCursorAhead(_, _, _)
AdvanceCursorAhead(positions, cursor, i) ==
    IF cursor < Len(positions) /\ positions[cursor + 1] <= i + 1
    THEN AdvanceCursorAhead(positions, cursor + 1, i)
    ELSE cursor
RECURSIVE AdvanceCursor(_, _, _)
AdvanceCursor(positions, cursor, i) ==
    IF cursor < Len(positions) /\ positions[cursor + 1] <= i
    THEN AdvanceCursor(positions, cursor + 1, i)
    ELSE cursor

\* if nextPos > farthest: the comparison that keeps the farthest page.
FartherBug(nextPos, farthest) == farthest = 0 - 1 \/ nextPos < farthest
Farther(nextPos, farthest) == nextPos > farthest

\* The victim scan over memoryFrames from frameIdx on (0-based): advances and
\* stores the cursor of every frame it visits, stops at the first page with no
\* later reference, and otherwise keeps the page whose next one is farthest.
RECURSIVE ScanFramesNoBreak(_, _, _, _, _, _, _)
ScanFramesNoBreak(memoryFrames, pagePositions, i, frameIdx, nextUseCursor, farthest, victimIndex) ==
    IF frameIdx >= Len(memoryFrames)
    THEN [nextUseCursor |-> nextUseCursor, victimIndex |-> victimIndex]
    ELSE LET framePage == memoryFrames[frameIdx + 1]
             positions == Positions(pagePositions, framePage)
             cursor == AdvanceCursor(positions, MapGet(nextUseCursor, framePage), i)
             cursors == MapSet(nextUseCursor, framePage, cursor)
             nextPos == IF cursor < Len(positions) THEN positions[cursor + 1]
                        ELSE 0 - 1
         IN IF nextPos = 0 - 1 \/ Farther(nextPos, farthest)
            THEN ScanFramesNoBreak(memoryFrames, pagePositions, i, frameIdx + 1,
                                   cursors, IF nextPos = 0 - 1 THEN farthest
                                            ELSE nextPos, frameIdx)
            ELSE ScanFramesNoBreak(memoryFrames, pagePositions, i, frameIdx + 1,
                                   cursors, farthest, victimIndex)
RECURSIVE ScanFrames(_, _, _, _, _, _, _)
ScanFrames(memoryFrames, pagePositions, i, frameIdx, nextUseCursor, farthest, victimIndex) ==
    IF frameIdx >= Len(memoryFrames)
    THEN [nextUseCursor |-> nextUseCursor, victimIndex |-> victimIndex]
    ELSE LET framePage == memoryFrames[frameIdx + 1]
             positions == Positions(pagePositions, framePage)
             cursor == AdvanceCursor(positions, MapGet(nextUseCursor, framePage), i)
             cursors == MapSet(nextUseCursor, framePage, cursor)
             nextPos == IF cursor < Len(positions) THEN positions[cursor + 1]
                        ELSE 0 - 1
         IN IF nextPos = 0 - 1
            THEN [nextUseCursor |-> cursors, victimIndex |-> frameIdx]
            ELSE IF Farther(nextPos, farthest)
            THEN ScanFrames(memoryFrames, pagePositions, i, frameIdx + 1, cursors,
                            nextPos, frameIdx)
            ELSE ScanFrames(memoryFrames, pagePositions, i, frameIdx + 1, cursors,
                            farthest, victimIndex)

\* farthest := -1; victimIndex := -1; for frameIdx, framePage := range ...
SelectVictim(memoryFrames, pagePositions, i, nextUseCursor) ==
    ScanFrames(memoryFrames, pagePositions, i, 0, nextUseCursor, 0 - 1, 0 - 1)

\* memoryFrames[victimIndex] with victimIndex = -1 is an index out of range:
\* only possible when the slice is empty and numFrames <= 0.
OptimalPanics(st, page, numFrames) ==
    /\ page \notin st.pageInMmemorySet
    /\ ~(Len(st.memoryFrames) < numFrames)
    /\ st.memoryFrames = <<>>

\* The room test of a miss: append while a frame is free.
HasFreeFrameBug(memoryFrames, numFrames) == Len(memoryFrames) <= numFrames
HasFreeFrame(memoryFrames, numFrames) == Len(memoryFrames) < numFrames

\* The miss branch: count the fault, then append or replace the victim in place.
OptimalMiss(st, page, numFrames, pagePositions) ==
    LET counted == [st EXCEPT !.result = CountFault(@, page)]
    IN IF HasFreeFrame(st.memoryFrames, numFrames)
       THEN [counted EXCEPT
               !.memoryFrames = Append(@, page),
               !.pageInMmemorySet = @ \cup {page}]
       ELSE LET scan == SelectVictim(st.memoryFrames, pagePositions, st.i,
                                     st.nextUseCursor)
                evictedPage == st.memoryFrames[scan.victimIndex + 1]
            IN [counted EXCEPT
                  !.nextUseCursor = scan.nextUseCursor,
                  !.memoryFrames = [@ EXCEPT ![scan.victimIndex + 1] = page],
                  !.pageInMmemorySet = (@ \ {evictedPage}) \cup {page}]

\* The page a miss evicts ("" when a frame was free).
OptimalEvicted(st, page, numFrames, pagePositions) ==
    IF HasFreeFrame(st.memoryFrames, numFrames) THEN ""
    ELSE st.memoryFrames[SelectVictim(st.memoryFrames, pagePositions, st.i,
                                      st.nextUseCursor).victimIndex + 1]

\* The didactic dump: framesState is a sorted copy, memoryFrames is what the
\* slice holds afterwards.
OptimalShowStateBug(memoryFrames, didacticMode) ==
    [memoryFrames |-> IF didacticMode THEN SortStrings(memoryFrames)
                      ELSE memoryFrames,
     framesState |-> IF didacticMode THEN SortStrings(memoryFrames) ELSE <<>>]
OptimalShowState(memoryFrames, didacticMode) ==
    [memoryFrames |-> memoryFrames,
     framesState |-> IF didacticMode THEN SortStrings(memoryFrames) ELSE <<>>]

\* One iteration of optimalAlgorithmOptimized's loop that does not panic.
OptimalBodyTouch(st, page, numFrames, pagePositions, didacticMode) ==
    LET after == IF page \notin st.pageInMmemorySet
                 THEN OptimalMiss(st, page, numFrames, pagePositions)
                 ELSE [st EXCEPT !.nextUseCursor =
                          MapSet(@, page,
                                 AdvanceCursor(Positions(pagePositions, page),
                                               MapGet(@, page), st.i))]
    IN [after EXCEPT !.i = @ + 1]
OptimalBody(st, page, numFrames, pagePositions, didacticMode) ==
    LET after == IF page \notin st.pageInMmemorySet
                 THEN OptimalMiss(st, page, numFrames, pagePositions) ELSE st
        shown == OptimalShowState(after.memoryFrames, didacticMode)
    IN [after EXCEPT !.memoryFrames = shown.memoryFrames, !.i = @ + 1]

OptimalNarration(st, page, numFrames, pagePositions) ==
    LET fault == page \notin st.pageInMmemorySet
        after == IF fault THEN OptimalMiss(st, page, numFrames, pagePositions)
                 ELSE st
    IN [alg |-> "Otimo", passo |-> st.i + 1, page |-> page, fault |-> fault,
        evicted |-> IF fault THEN OptimalEvicted(st, page, numFrames, pagePositions)
                    ELSE "",
        estado |-> OptimalShowState(after.memoryFrames, TRUE).framesState]

\* The states of a whole run, from entry to return (numFrames >= 1).
RECURSIVE OptimalTrail(_, _, _, _, _)
OptimalTrail(st, pageReferences, numFrames, pagePositions, didacticMode) ==
    IF st.i >= Len(pageReferences) THEN <<st>>
    ELSE <<st>> \o OptimalTrail(OptimalBody(st, pageReferences[st.i + 1], numFrames,
                                            pagePositions, didacticMode),
                                pageReferences, numFrames, pagePositions,
                                didacticMode)

optimalAlgorithmOptimized(pageReferences, numFrames, pagePositions, didacticMode) ==
    LET trail == OptimalTrail(OptimalEnter, pageReferences, numFrames,
                              pagePositions, didacticMode)
    IN trail[Len(trail)].result

\* ------------------------------------------------------------- state
VARIABLES
    memorySizeStr,        \* args[1], normalised
    didacticMode,         \* the --didatico flag; a repeated run's own argument
    pc,                   \* where the program stands
    physicalMemoryBytes,  \* main's physicalMemoryBytes
    pageReferences,       \* the trace read from the file
    pagePositions,        \* page -> ascending trace indices
    numFrames,            \* main's numFrames; a repeated run's own argument
    distinctPagesCount,   \* len(distinctPagesSet)
    optimal,              \* optimalAlgorithmOptimized's locals
    fifo,                 \* fifoAlgorithm's locals
    optimalResult,        \* main's optimalResult
    fifoResult,           \* main's fifoResult
    stdout,               \* what was printed, in order
    calls,                \* repeated runs: how many were started
    returned              \* repeated runs: every result returned, per arguments

vars == <<memorySizeStr, didacticMode, pc, physicalMemoryBytes, pageReferences,
          pagePositions, numFrames, distinctPagesCount, optimal, fifo,
          optimalResult, fifoResult, stdout, calls, returned>>

\* var optimalResult, fifoResult SimulationResult: the zero value.
ZeroResult == [pageFaults |-> 0, loadCounts |-> EmptyMap]

\* The state once the command line is split: the flag and the size argument
\* are known, nothing is computed yet.
Init ==
    /\ memorySizeStr \in MemorySizeStrs
    /\ didacticMode \in BOOLEAN
    /\ pc = "check"
    /\ physicalMemoryBytes = 0
    /\ pageReferences = <<>>
    /\ pagePositions = EmptyMap
    /\ numFrames = 0
    /\ distinctPagesCount = 0
    /\ optimal = OptimalEnter
    /\ fifo = FifoEnter
    /\ optimalResult = ZeroResult
    /\ fifoResult = ZeroResult
    /\ stdout = <<>>
    /\ calls = 0
    /\ returned = <<>>

\* ------------------------------------------------------------- main
\* physicalMemoryBytes, _ := parseMemorySize(...); exit(1) when below one page.
CheckMemory ==
    /\ pc = "check"
    /\ physicalMemoryBytes' = parseMemorySize(memorySizeStr)
    /\ pc' = IF MemoryTooSmall(physicalMemoryBytes') THEN "exit" ELSE "read"
    /\ UNCHANGED <<memorySizeStr, didacticMode, pageReferences, pagePositions,
                   numFrames, distinctPagesCount, optimal, fifo, optimalResult,
                   fifoResult, stdout, calls, returned>>

\* os.Open and the scanner loop: exit(1) when the file cannot be opened.
ReadFile ==
    /\ pc = "read"
    /\ \E file \in Files :
         IF file.missing
         THEN pc' = "exit" /\ UNCHANGED pageReferences
         ELSE pc' = "preprocess" /\ pageReferences' = file.lines
    /\ UNCHANGED <<memorySizeStr, didacticMode, physicalMemoryBytes, pagePositions,
                   numFrames, distinctPagesCount, optimal, fifo, optimalResult,
                   fifoResult, stdout, calls, returned>>

\* The position index, numFrames and the distinct-page count.
Preprocess ==
    /\ pc = "preprocess"
    /\ pagePositions' = BuildPositions(pageReferences, 0, EmptyMap)
    /\ numFrames' = FramesOf(physicalMemoryBytes)
    /\ distinctPagesCount' = Cardinality(Range(pageReferences))
    /\ pc' = "call_optimal"
    /\ UNCHANGED <<memorySizeStr, didacticMode, physicalMemoryBytes, pageReferences,
                   optimal, fifo, optimalResult, fifoResult, stdout, calls, returned>>

\* Entry of optimalAlgorithmOptimized: whatever an earlier run left in its
\* locals (prev), they are made anew.
OptimalEntry(prev) == OptimalEnter

\* Entry of fifoAlgorithm, likewise.
FifoEntryBug(prev) == [FifoEnter EXCEPT !.result = prev.result]
FifoEntry(prev) == FifoEnter

CallOptimal ==
    /\ pc = "call_optimal"
    /\ optimal' = OptimalEntry(optimal)
    /\ pc' = "optimal"
    /\ UNCHANGED <<memorySizeStr, didacticMode, physicalMemoryBytes, pageReferences,
                   pagePositions, numFrames, distinctPagesCount, fifo,
                   optimalResult, fifoResult, stdout, calls, returned>>

\* One iteration of optimalAlgorithmOptimized's loop.
OptimalIteration ==
    /\ pc = "optimal"
    /\ optimal.i < Len(pageReferences)
    /\ LET page == pageReferences[optimal.i + 1]
       IN IF OptimalPanics(optimal, page, numFrames)
          THEN /\ optimal' = [optimal EXCEPT !.result = CountFault(@, page)]
               /\ pc' = "panic"
               /\ UNCHANGED stdout
          ELSE /\ optimal' = OptimalBody(optimal, page, numFrames, pagePositions,
                                         didacticMode)
               /\ stdout' = IF didacticMode
                            THEN Append(stdout, OptimalNarration(optimal, page,
                                                    numFrames, pagePositions))
                            ELSE stdout
               /\ UNCHANGED pc
    /\ UNCHANGED <<memorySizeStr, didacticMode, physicalMemoryBytes, pageReferences,
                   pagePositions, numFrames, distinctPagesCount, fifo,
                   optimalResult, fifoResult, calls, returned>>

\* return result, assigned to main's optimalResult.
OptimalReturn ==
    /\ pc = "optimal"
    /\ optimal.i >= Len(pageReferences)
    /\ optimalResult' = optimal.result
    /\ pc' = "call_fifo"
    /\ UNCHANGED <<memorySizeStr, didacticMode, physicalMemoryBytes, pageReferences,
                   pagePositions, numFrames, distinctPagesCount, optimal, fifo,
                   fifoResult, stdout, calls, returned>>

CallFifo ==
    /\ pc = "call_fifo"
    /\ fifo' = FifoEntry(fifo)
    /\ pc' = "fifo"
    /\ UNCHANGED <<memorySizeStr, didacticMode, physicalMemoryBytes, pageReferences,
                   pagePositions, numFrames, distinctPagesCount, optimal,
                   optimalResult, fifoResult, stdout, calls, returned>>

\* One iteration of fifoAlgorithm's loop.
FifoIteration ==
    /\ pc = "fifo"
    /\ fifo.i < Len(pageReferences)
    /\ LET page == pageReferences[fifo.i + 1]
       IN IF FifoPanics(fifo, page, numFrames)
          THEN /\ fifo' = [fifo EXCEPT !.result = CountFault(@, page)]
               /\ pc' = "panic"
               /\ UNCHANGED stdout
          ELSE /\ fifo' = FifoBody(fifo, page, numFrames, didacticMode)
               /\ stdout' = IF didacticMode
                            THEN Append(stdout, FifoNarration(fifo, page, numFrames))
                            ELSE stdout
               /\ UNCHANGED pc
    /\ UNCHANGED <<memorySizeStr, didacticMode, physicalMemoryBytes, pageReferences,
                   pagePositions, numFrames, distinctPagesCount, optimal,
                   optimalResult, fifoResult, calls, returned>>

\* return result, assigned to main's fifoResult.
FifoReturn ==
    /\ pc = "fifo"
    /\ fifo.i >= Len(pageReferences)
    /\ fifoResult' = fifo.result
    /\ pc' = "report"
    /\ UNCHANGED <<memorySizeStr, didacticMode, physicalMemoryBytes, pageReferences,
                   pagePositions, numFrames, distinctPagesCount, optimal, fifo,
                   optimalResult, stdout, calls, returned>>

\* The summary: frames, distinct pages, table size, faults of both runs.
Report ==
    /\ pc = "report"
    /\ stdout' = Append(stdout,
           [alg |-> "resultado", frames |-> numFrames,
            distinct |-> distinctPagesCount,
            tableSize |-> distinctPagesCount * sizeOfPTE,
            otimo |-> optimalResult.pageFaults, fifo |-> fifoResult.pageFaults])
    /\ pc' = "ask"
    /\ UNCHANGED <<memorySizeStr, didacticMode, physicalMemoryBytes, pageReferences,
                   pagePositions, numFrames, distinctPagesCount, optimal, fifo,
                   optimalResult, fifoResult, calls, returned>>

\* The per-page table of load counts, in sort.Strings order.
LoadTable ==
    LET InTrace(p) == p \in Range(pageReferences)
        pages == SelectSeq(Alphabet, InTrace)
    IN [k \in 1..Len(pages) |->
          [page |-> pages[k],
           otimo |-> MapGet(optimalResult.loadCounts, pages[k]),
           fifo |-> MapGet(fifoResult.loadCounts, pages[k])]]

\* "Deseja listar o numero de carregamentos (s/n)?"
ListLoads ==
    /\ pc = "ask"
    /\ \E choice \in {"s", "n"} :
         stdout' = IF choice = "s"
                   THEN Append(stdout, [alg |-> "tabela", linhas |-> LoadTable])
                   ELSE stdout
    /\ pc' = "done"
    /\ UNCHANGED <<memorySizeStr, didacticMode, physicalMemoryBytes, pageReferences,
                   pagePositions, numFrames, distinctPagesCount, optimal, fifo,
                   optimalResult, fifoResult, calls, returned>>

Next ==
    \/ CheckMemory
    \/ ReadFile
    \/ Preprocess
    \/ CallOptimal
    \/ OptimalIteration
    \/ OptimalReturn
    \/ CallFifo
    \/ FifoIteration
    \/ FifoReturn
    \/ Report
    \/ ListLoads

Spec == Init /\ [][Next]_vars

\* ------------------------------------------------------------- repeated runs
\* A caller that holds a loaded trace and its position index and runs the two
\* simulators again and again on them, in any order, keeping every result.
InitRepeat ==
    /\ memorySizeStr = [valid |-> FALSE, num |-> 0, unit |-> ""]
    /\ didacticMode \in BOOLEAN
    /\ pc = "idle"
    /\ physicalMemoryBytes = 0
    /\ pageReferences \in Traces
    /\ pagePositions = BuildPositions(pageReferences, 0, EmptyMap)
    /\ numFrames \in 1..MaxFrames
    /\ distinctPagesCount = Cardinality(Range(pageReferences))
    /\ optimal = OptimalEnter
    /\ fifo = FifoEnter
    /\ optimalResult = ZeroResult
    /\ fifoResult = ZeroResult
    /\ stdout = <<>>
    /\ calls = 0
    /\ returned = <<>>

RepeatOptimal ==
    /\ pc = "idle"
    /\ calls < MaxCalls
    /\ calls' = calls + 1
    /\ optimal' = OptimalEntry(optimal)
    /\ pc' = "optimal"
    /\ UNCHANGED <<memorySizeStr, didacticMode, physicalMemoryBytes, pageReferences,
                   pagePositions, numFrames, distinctPagesCount, fifo,
                   optimalResult, fifoResult, stdout, returned>>

RepeatOptimalReturn ==
    /\ pc = "optimal"
    /\ optimal.i >= Len(pageReferences)
    /\ returned' = Append(returned, [alg |-> "optimal", numFrames |-> numFrames,
                                     result |-> optimal.result])
    /\ pc' = "idle"
    /\ UNCHANGED <<memorySizeStr, didacticMode, physicalMemoryBytes, pageReferences,
                   pagePositions, numFrames, distinctPagesCount, optimal, fifo,
                   optimalResult, fifoResult, stdout, calls>>

RepeatFifo ==
    /\ pc = "idle"
    /\ calls < MaxCalls
    /\ calls' = calls + 1
    /\ fifo' = FifoEntry(fifo)
    /\ pc' = "fifo"
    /\ UNCHANGED <<memorySizeStr, didacticMode, physicalMemoryBytes, pageReferences,
                   pagePositions, numFrames, distinctPagesCount, optimal,
                   optimalResult, fifoResult, stdout, returned>>

RepeatFifoReturn ==
    /\ pc = "fifo"
    /\ fifo.i >= Len(pageReferences)
    /\ returned' = Append(returned, [alg |-> "fifo", numFrames |-> numFrames,
                                     result |-> fifo.result])
    /\ pc' = "idle"
    /\ UNCHANGED <<memorySizeStr, didacticMode, physicalMemoryBytes, pageReferences,
                   pagePositions, numFrames, distinctPagesCount, optimal, fifo,
                   optimalResult, fifoResult, stdout, calls>>

NextRepeat ==
    \/ RepeatOptimal
    \/ OptimalIteration
    \/ RepeatOptimalReturn
    \/ RepeatFifo
    \/ FifoIteration
    \/ RepeatFifoReturn

SpecRepeat == InitRepeat /\ [][NextRepeat]_vars

\* ------------------------------------------------------------- properties
\* main holds both results: both simulators have returned.
BothReturned == pc \in {"report", "ask", "done"}

DistinctPages == Range(pageReferences)

\* C1: on the same trace and the same numFrames >= 1, the fault count returned
\* by optimalAlgorithmOptimized is at most the one returned by fifoAlgorithm.
C1_OptimalAtMostFifo ==
    (BothReturned /\ numFrames >= 1)
        => optimalResult.pageFaults <= fifoResult.pageFaults

\* Both runs returned and Optimal faulted strictly less often than FIFO.
C1_Witness ==
    /\ pc = "done"
    /\ numFrames >= 1
    /\ optimalResult.pageFaults < fifoResult.pageFaults

\* C2 as written: on [A,B,C,A,B,D,A,B,C,D] with three frames FIFO reports 9
\* page faults and Optimal reports 7.
C2_NineAndSeven ==
    (BothReturned /\ pageReferences = TextbookTrace /\ numFrames = 3)
        => (fifoResult.pageFaults = 9 /\ optimalResult.pageFaults = 7)

\* C2 amended: on [A,B,C,A,B,D,A,B,C,D] with three frames FIFO reports exactly
\* 8 page faults and Optimal reports exactly 5.
C2_EightAndFive ==
    (BothReturned /\ pageReferences = TextbookTrace /\ numFrames = 3)
        => (fifoResult.pageFaults = 8 /\ optimalResult.pageFaults = 5)

\* Both runs on the textbook trace with three frames have returned.
C2_Witness ==
    /\ pc = "done"
    /\ pageReferences = TextbookTrace
    /\ numFrames = 3
    /\ fifo.i = Len(TextbookTrace)
    /\ optimal.i = Len(TextbookTrace)

\* C3: in both simulators, after every trace step and in the returned result,
\* pageFaults equals the sum of all values of loadCounts.
C3_FaultsAreLoads ==
    /\ optimal.result.pageFaults = SumValues(optimal.result.loadCounts)
    /\ fifo.result.pageFaults = SumValues(fifo.result.loadCounts)
    /\ optimalResult.pageFaults = SumValues(optimalResult.loadCounts)
    /\ fifoResult.pageFaults = SumValues(fifoResult.loadCounts)

\* Both results are in, and each simulator loaded some page more than once
\* and more than one page.
C3_Witness ==
    /\ BothReturned
    /\ \E p \in DOMAIN fifoResult.loadCounts : fifoResult.loadCounts[p] >= 2
    /\ \E p \in DOMAIN optimalResult.loadCounts : optimalResult.loadCounts[p] >= 2
    /\ Cardinality(DOMAIN fifoResult.loadCounts) >= 2
    /\ Cardinality(DOMAIN optimalResult.loadCounts) >= 2

\* C4: for numFrames >= 1, the membership set, the FIFO list and the Optimal
\* frame slice never hold more than numFrames pages.
C4_ResidentWithinFrames ==
    numFrames >= 1 =>
        /\ Cardinality(fifo.pageInMmemorySet) <= numFrames
        /\ Len(fifo.memoryFrames) <= numFrames
        /\ Cardinality(optimal.pageInMmemorySet) <= numFrames
        /\ Len(optimal.memoryFrames) <= numFrames

\* Both simulators have evicted with memory full, with two frames or more.
C4_Witness ==
    /\ numFrames >= 2
    /\ Len(fifo.memoryFrames) = numFrames
    /\ fifo.result.pageFaults > numFrames
    /\ Len(optimal.memoryFrames) = numFrames
    /\ optimal.result.pageFaults > numFrames

\* C5: when numFrames is at least the number of distinct pages of the trace,
\* both simulators return that number as pageFaults, and loadCounts maps
\* every distinct page to exactly 1.
C5_EveryPageLoadedOnce ==
    (BothReturned /\ numFrames >= Cardinality(DistinctPages)) =>
        LET once == [pageFaults |-> Cardinality(DistinctPages),
                     loadCounts |-> [p \in DistinctPages |-> 1]]
        IN /\ optimalResult = once
           /\ fifoResult = once
           /\ \A k \in 1..Len(stdout) :
                 stdout[k].alg \in {"FIFO", "Otimo"} => stdout[k].evicted = ""

\* Exactly as many frames as distinct pages, several pages, and repeats.
C5_Witness ==
    /\ pc = "done"
    /\ numFrames = Cardinality(DistinctPages)
    /\ numFrames >= 2
    /\ Len(pageReferences) > numFrames
    /\ optimalResult.pageFaults = numFrames

\* The fault count of a whole Optimal run on the loaded trace with n frames.
OptimalFaults(n) ==
    optimalAlgorithmOptimized(pageReferences, n, pagePositions,
                              didacticMode).pageFaults

FrameCounts == 1..(MaxFrames + 1)

\* C6: on a fixed trace, for 1 <= n < m, Optimal with m frames faults at most
\* as often as Optimal with n frames; main's own run is one of these runs.
C6_OptimalMonotone ==
    pc = "report" =>
        /\ optimalResult.pageFaults = OptimalFaults(numFrames)
        /\ \A n, m \in FrameCounts \cup {numFrames} :
              n < m => OptimalFaults(m) <= OptimalFaults(n)

\* A trace on which every added frame, up to three, removes a fault.
C6_Witness ==
    /\ pc = "report"
    /\ numFrames = 2
    /\ OptimalFaults(2) < OptimalFaults(1)
    /\ OptimalFaults(3) < OptimalFaults(2)
    /\ optimalResult.pageFaults = OptimalFaults(2)

\* C7: when the memory size gives numFrames < 1, main exits with an error
\* before any reference is read or processed: no fault is counted, no page is
\* made resident and no result is returned.
C7_RefusesWithoutFrames ==
    FramesOf(parseMemorySize(memorySizeStr)) < 1 =>
        /\ pc \in {"check", "exit"}
        /\ pageReferences = <<>>
        /\ optimal = OptimalEnter
        /\ fifo = FifoEnter
        /\ optimalResult = ZeroResult
        /\ fifoResult = ZeroResult

\* A positive size below one page was refused.
C7_Witness ==
    /\ pc = "exit"
    /\ physicalMemoryBytes > 0
    /\ FramesOf(physicalMemoryBytes) = 0

\* C8: on an empty trace with numFrames >= 1, both simulators return
\* pageFaults = 0 and an empty loadCounts.
C8_EmptyTrace ==
    (pageReferences = <<>> /\ numFrames >= 1) =>
        /\ pc \in {"fifo", "report", "ask", "done"} =>
              /\ optimal.result.pageFaults = 0
              /\ DOMAIN optimal.result.loadCounts = {}
        /\ BothReturned =>
              /\ optimalResult = optimal.result
              /\ fifoResult = fifo.result
              /\ fifoResult.pageFaults = 0
              /\ DOMAIN fifoResult.loadCounts = {}

\* Both runs on an empty trace with four frames have returned.
C8_Witness ==
    /\ pc = "done"
    /\ pageReferences = <<>>
    /\ numFrames = 4

\* C9: runs of the same simulator on the same trace and numFrames return the
\* same pageFaults and loadCounts, whatever ran before or in between.
C9_RepeatedRunsAgree ==
    \A a, b \in 1..Len(returned) :
        (returned[a].alg = returned[b].alg
            /\ returned[a].numFrames = returned[b].numFrames)
        => returned[a].result = returned[b].result

\* The same simulator returned twice with the other one run in between, on a
\* trace that made it evict.
C9_Witness ==
    /\ Len(returned) = 3
    /\ returned[1].alg = returned[3].alg
    /\ returned[2].alg # returned[1].alg
    /\ returned[1].result.pageFaults > numFrames
    /\ returned[2].result.pageFaults > numFrames

\* C10: with didacticMode toggled a run goes through the same states and
\* returns the same result: every state of the actual run is the state the
\* run with the opposite flag is in at the same step.
C10_DidacticIsSideChannel ==
    numFrames >= 1 =>
        /\ pc = "optimal" =>
              optimal = OptimalTrail(OptimalEnter, pageReferences, numFrames,
                                     pagePositions, ~didacticMode)[optimal.i + 1]
        /\ pc = "fifo" =>
              fifo = FifoTrail(FifoEnter, pageReferences, numFrames,
                               ~didacticMode)[fifo.i + 1]
        /\ BothReturned =>
              /\ optimalResult = optimalAlgorithmOptimized(pageReferences,
                                     numFrames, pagePositions, ~didacticMode)
              /\ fifoResult = fifoAlgorithm(pageReferences, numFrames,
                                            ~didacticMode)

\* A narrated run: both simulators printed their steps, evictions included.
C10_Witness ==
    /\ didacticMode
    /\ pc = "done"
    /\ Len(stdout) >= 2 * Len(pageReferences)
    /\ \E k \in 1..Len(stdout) : stdout[k].alg = "Otimo" /\ stdout[k].evicted # ""
    /\ \E k \in 1..Len(stdout) : stdout[k].alg = "FIFO" /\ stdout[k].evicted # ""


\* ------------------------------------------------------------- FIFO order
\* The states fifoAlgorithm goes through on the loaded trace.
FifoRun == FifoTrail(FifoEnter, pageReferences, numFrames, didacticMode)

\* Reference j (0-based) of the FIFO run is a miss: it loads its page.
FifoLoadsAt(j) ==
    pageReferences[j + 1] \notin FifoRun[j + 1].pageInMmemorySet

\* The trace index at which page q was last loaded before reference i
\* (-1 when it never was).
FifoLastLoad(q, i) ==
    LET loads == {j \in 0..(i - 1) : pageReferences[j + 1] = q /\ FifoLoadsAt(j)}
    IN IF loads = {} THEN 0 - 1
       ELSE CHOOSE j \in loads : \A k \in loads : k <= j

\* Front to back, the list holds the resident pages by increasing load index.
FifoInLoadOrder(st) ==
    /\ Range(st.memoryFrames) = st.pageInMmemorySet
    /\ \A a \in 1..Len(st.memoryFrames) :
          FifoLastLoad(st.memoryFrames[a], st.i) >= 0
    /\ \A a, b \in 1..Len(st.memoryFrames) :
          a < b => FifoLastLoad(st.memoryFrames[a], st.i)
                     < FifoLastLoad(st.memoryFrames[b], st.i)

\* C11: after every step of fifoAlgorithm the list, front to back, holds
\* exactly the resident pages by increasing index of their last load; a miss
\* with full memory evicts the resident page loaded earliest, whatever hits it
\* had, and appends the faulting page at the back.
C11_FifoArrivalOrder ==
    [][(pc = "fifo" /\ pc' = "fifo" /\ fifo'.i = fifo.i + 1 /\ numFrames >= 1) =>
        LET page == pageReferences[fifo.i + 1]
            earliest == CHOOSE q \in fifo.pageInMmemorySet :
                           \A r \in fifo.pageInMmemorySet :
                              FifoLastLoad(q, fifo.i) <= FifoLastLoad(r, fifo.i)
        IN /\ FifoInLoadOrder(fifo')
           /\ (page \notin fifo.pageInMmemorySet
                 /\ Len(fifo.memoryFrames) = numFrames) =>
                 /\ earliest \notin fifo'.pageInMmemorySet
                 /\ fifo'.pageInMmemorySet =
                       (fifo.pageInMmemorySet \ {earliest}) \cup {page}
                 /\ fifo'.memoryFrames = Append(Tail(fifo.memoryFrames), page)
                 /\ Head(fifo.memoryFrames) = earliest]_vars

\* The last step was a full-memory miss that evicted a page which had been
\* hit since it was loaded, while a page loaded later had not.
C11_Witness ==
    /\ pc = "fifo"
    /\ numFrames >= 2
    /\ fifo.i >= 1
    /\ LET before == FifoRun[fifo.i]
           victim == Head(before.memoryFrames)
       IN /\ FifoLoadsAt(fifo.i - 1)
          /\ Len(before.memoryFrames) = numFrames
          /\ victim \notin fifo.pageInMmemorySet
          /\ \E j \in (FifoLastLoad(victim, fifo.i - 1) + 1)..(fifo.i - 2) :
                pageReferences[j + 1] = victim


\* ------------------------------------------------------------- Optimal victims
\* The states optimalAlgorithmOptimized goes through on the loaded trace.
OptimalRun ==
    OptimalTrail(OptimalEnter, pageReferences, numFrames, pagePositions,
                 didacticMode)

\* The trace indices after i that hold page q, found by rescanning the trace.
LaterRefs(q, i) ==
    {j \in (i + 1)..(Len(pageReferences) - 1) : pageReferences[j + 1] = q}

\* The true next reference of q after i (only where LaterRefs is not empty).
NextRef(q, i) ==
    CHOOSE j \in LaterRefs(q, i) : \A k \in LaterRefs(q, i) : j <= k

\* The step from st is a miss that finds every frame taken.
OptimalFullMiss(st) ==
    /\ st.i < Len(pageReferences)
    /\ pageReferences[st.i + 1] \notin st.pageInMmemorySet
    /\ ~HasFreeFrame(st.memoryFrames, numFrames)

\* C12: on every full-memory miss of optimalAlgorithmOptimized at index i where
\* every resident page is referenced again after i, the page evicted is the
\* resident page whose true next reference, found by rescanning the trace, is
\* the largest.
C12_VictimIsFarthest ==
    [][(pc = "optimal" /\ pc' = "optimal" /\ optimal'.i = optimal.i + 1
          /\ numFrames >= 1 /\ OptimalFullMiss(optimal)
          /\ \A q \in optimal.pageInMmemorySet : LaterRefs(q, optimal.i) # {}) =>
        \E victim \in optimal.pageInMmemorySet :
            /\ \A q \in optimal.pageInMmemorySet :
                  NextRef(q, optimal.i) <= NextRef(victim, optimal.i)
            /\ optimal'.pageInMmemorySet =
                  (optimal.pageInMmemorySet \ {victim})
                      \cup {pageReferences[optimal.i + 1]}
            /\ victim \notin Range(optimal'.memoryFrames)]_vars

\* The last step evicted with every resident page still to be referenced, and
\* the victim's cursor had to pass two positions at once to find its next one.
C12_Witness ==
    /\ pc = "optimal"
    /\ numFrames >= 2
    /\ optimal.i >= 1
    /\ LET before == OptimalRun[optimal.i]
       IN /\ OptimalFullMiss(before)
          /\ \A q \in before.pageInMmemorySet : LaterRefs(q, before.i) # {}
          /\ \E victim \in before.pageInMmemorySet \ optimal.pageInMmemorySet :
                MapGet(optimal.nextUseCursor, victim)
                    >= MapGet(before.nextUseCursor, victim) + 2


\* The frame indices (1-based) of st whose page is not referenced after st.i.
NeverAgainFrames(st) ==
    {k \in 1..Len(st.memoryFrames) : LaterRefs(st.memoryFrames[k], st.i) = {}}

\* The lowest frame index of st whose page is not referenced again.
FirstNeverAgain(st) ==
    CHOOSE k \in NeverAgainFrames(st) : \A n \in NeverAgainFrames(st) : k <= n

\* C13: on a full-memory miss of optimalAlgorithmOptimized, when some resident
\* page has no later reference, the victim is the such page in the lowest
\* frame, even with pages that are referenced again in lower frames: the
\* faulting page takes exactly that frame and every other frame is kept.
C13_NeverAgainGoesFirst ==
    [][(pc = "optimal" /\ pc' = "optimal" /\ optimal'.i = optimal.i + 1
          /\ numFrames >= 1 /\ OptimalFullMiss(optimal)
          /\ NeverAgainFrames(optimal) # {}) =>
        LET k == FirstNeverAgain(optimal)
        IN /\ optimal'.memoryFrames =
                 [optimal.memoryFrames EXCEPT ![k] = pageReferences[optimal.i + 1]]
           /\ optimal'.pageInMmemorySet =
                 (optimal.pageInMmemorySet \ {optimal.memoryFrames[k]})
                     \cup {pageReferences[optimal.i + 1]}
           /\ \A n \in 1..Len(optimal.memoryFrames) :
                 LaterRefs(optimal.memoryFrames[n], optimal.i) # {}
                     => optimal.memoryFrames[n] \in optimal'.pageInMmemorySet]_vars

\* The last step evicted a page with no later reference from the second frame
\* or above, past a first frame whose page is referenced again.
C13_Witness ==
    /\ pc = "optimal"
    /\ numFrames >= 2
    /\ optimal.i >= 1
    /\ LET before == OptimalRun[optimal.i]
       IN /\ OptimalFullMiss(before)
          /\ NeverAgainFrames(before) # {}
          /\ FirstNeverAgain(before) >= 2
          /\ LaterRefs(before.memoryFrames[1], before.i) # {}
          /\ optimal.memoryFrames[1] = before.memoryFrames[1]
          /\ optimal.memoryFrames[FirstNeverAgain(before)]
                = pageReferences[before.i + 1]


\* Reference j (0-based) of the Optimal run is a miss: it loads its page.
OptimalLoadsAt(j) ==
    pageReferences[j + 1] \notin OptimalRun[j + 1].pageInMmemorySet

\* The trace index at which page q last became resident before reference i.
OptimalLastLoad(q, i) ==
    LET loads == {j \in 0..(i - 1) : pageReferences[j + 1] = q /\ OptimalLoadsAt(j)}
    IN IF loads = {} THEN 0 - 1
       ELSE CHOOSE j \in loads : \A k \in loads : k <= j

\* The never-referenced-again frame of st whose page became resident earliest.
EarliestNeverAgain(st) ==
    CHOOSE k \in NeverAgainFrames(st) :
        \A n \in NeverAgainFrames(st) :
            OptimalLastLoad(st.memoryFrames[k], st.i)
                <= OptimalLastLoad(st.memoryFrames[n], st.i)

\* A full-memory miss of the Optimal run with several resident pages that are
\* never referenced again.
SeveralNeverAgain(st) ==
    /\ numFrames >= 1
    /\ OptimalFullMiss(st)
    /\ Cardinality(NeverAgainFrames(st)) >= 2

\* C14 as written: when several resident pages are never referenced again, the
\* one evicted is the one that became resident earliest among them.
C14_EarliestResidentEvicted ==
    [][(pc = "optimal" /\ pc' = "optimal" /\ optimal'.i = optimal.i + 1
          /\ SeveralNeverAgain(optimal)) =>
        optimal.memoryFrames[EarliestNeverAgain(optimal)]
            \notin optimal'.pageInMmemorySet]_vars

\* C14 amended: when several resident pages are never referenced again, the
\* one evicted is the one in the lowest frame among them; it is the one that
\* became resident earliest as long as no eviction has yet overwritten a
\* frame (the frames are then in load order).
C14_LowestFrameEvicted ==
    [][(pc = "optimal" /\ pc' = "optimal" /\ optimal'.i = optimal.i + 1
          /\ SeveralNeverAgain(optimal)) =>
        /\ optimal.memoryFrames[FirstNeverAgain(optimal)]
              \notin optimal'.pageInMmemorySet
        /\ \A n \in NeverAgainFrames(optimal) \ {FirstNeverAgain(optimal)} :
              optimal.memoryFrames[n] \in optimal'.pageInMmemorySet
        /\ optimal.result.pageFaults = numFrames =>
              FirstNeverAgain(optimal) = EarliestNeverAgain(optimal)]_vars

\* The last step chose among several never-referenced-again pages and evicted
\* the one in the lowest frame although another one was resident for longer.
C14_Witness ==
    /\ pc = "optimal"
    /\ optimal.i >= 1
    /\ LET before == OptimalRun[optimal.i]
       IN /\ SeveralNeverAgain(before)
          /\ FirstNeverAgain(before) # EarliestNeverAgain(before)
          /\ before.memoryFrames[FirstNeverAgain(before)]
                \notin optimal.pageInMmemorySet
          /\ before.memoryFrames[EarliestNeverAgain(before)]
                \in optimal.pageInMmemorySet


\* ------------------------------------------------------------- cursors
\* The cursors of st are within their position lists, and every position a
\* cursor has passed is a reference the loop has already taken.
CursorsInRange(st) ==
    \A q \in DOMAIN st.nextUseCursor :
        /\ 0 <= st.nextUseCursor[q]
        /\ st.nextUseCursor[q] <= Len(Positions(pagePositions, q))
        /\ \A k \in 1..st.nextUseCursor[q] :
              Positions(pagePositions, q)[k] < st.i

\* C15: in optimalAlgorithmOptimized, from one state of the run to the next
\* no nextUseCursor[q] decreases, every cursor stays within 0..len of the
\* page's position list, and every position before a cursor is at most the
\* index of the reference just processed.
C15_CursorsOnlyAdvance ==
    [][(pc = "optimal" /\ numFrames >= 1) =>
        /\ CursorsInRange(optimal')
        /\ DOMAIN optimal.nextUseCursor \subseteq DOMAIN optimal'.nextUseCursor
        /\ \A q \in DOMAIN optimal'.nextUseCursor :
              MapGet(optimal.nextUseCursor, q) <= optimal'.nextUseCursor[q]]_vars

\* The last step moved a cursor by two positions at once and left it in front
\* of a reference that is still to come, while another cursor is at its end.
C15_Witness ==
    /\ pc = "optimal"
    /\ optimal.i >= 1
    /\ LET before == OptimalRun[optimal.i]
       IN \E q, r \in DOMAIN optimal.nextUseCursor :
            /\ optimal.nextUseCursor[q] >= MapGet(before.nextUseCursor, q) + 2
            /\ optimal.nextUseCursor[q] < Len(pagePositions[q])
            /\ pagePositions[q][optimal.nextUseCursor[q] + 1] >= optimal.i
            /\ optimal.nextUseCursor[r] = Len(pagePositions[r])


\* ------------------------------------------------------------- position index
\* main has built the position index of the trace it read.
Preprocessed == pc \in {"call_optimal", "optimal", "call_fifo", "fifo", "report",
                        "ask", "done"}

\* C16: after preprocessing, pagePositions has an entry exactly for the pages
\* that occur in the trace, and each entry is the strictly ascending sequence
\* of all indices (0-based) holding that page; an empty trace gives an empty
\* index.
C16_PositionIndex ==
    Preprocessed =>
        /\ DOMAIN pagePositions = Range(pageReferences)
        /\ pageReferences = <<>> => pagePositions = EmptyMap
        /\ \A p \in DOMAIN pagePositions :
              /\ Range(pagePositions[p])
                    = {i \in 0..(Len(pageReferences) - 1) : pageReferences[i + 1] = p}
              /\ \A a, b \in 1..Len(pagePositions[p]) :
                    a < b => pagePositions[p][a] < pagePositions[p][b]

\* The index of a trace with several pages, one of them at three places or
\* more and not only at neighbouring ones.
C16_Witness ==
    /\ pc = "call_optimal"
    /\ Cardinality(DOMAIN pagePositions) >= 2
    /\ \E p \in DOMAIN pagePositions :
          /\ Len(pagePositions[p]) >= 3
          /\ pagePositions[p][2] > pagePositions[p][1] + 1


\* ------------------------------------------------------------- hits
\* C17: a hit changes nothing. When the referenced page is resident, the step
\* of either simulator leaves pageFaults, loadCounts, the resident set, the
\* order of the FIFO list, the Optimal frames and every cursor as they were;
\* only the loop index moves on.
C17_HitChangesNothing ==
    [][/\ (pc = "fifo" /\ fifo'.i = fifo.i + 1 /\ numFrames >= 1
             /\ pageReferences[fifo.i + 1] \in fifo.pageInMmemorySet)
          => fifo' = [fifo EXCEPT !.i = @ + 1]
       /\ (pc = "optimal" /\ optimal'.i = optimal.i + 1 /\ numFrames >= 1
             /\ pageReferences[optimal.i + 1] \in optimal.pageInMmemorySet)
          => optimal' = [optimal EXCEPT !.i = @ + 1]]_vars

\* The last FIFO step hit the page at the front of a full list of two or more
\* pages, and the Optimal run, after an eviction, hit a page whose cursor is
\* behind the reference that hit.
C17_Witness ==
    /\ pc = "fifo"
    /\ numFrames >= 2
    /\ fifo.i >= 1
    /\ Len(fifo.memoryFrames) = numFrames
    /\ pageReferences[fifo.i] = Head(fifo.memoryFrames)
    /\ fifo = [FifoRun[fifo.i] EXCEPT !.i = @ + 1]
    /\ \E j \in 1..(Len(pageReferences) - 1) :
          /\ ~OptimalLoadsAt(j)
          /\ OptimalRun[j + 1].result.pageFaults > numFrames
          /\ OptimalRun[j + 2] = [OptimalRun[j + 1] EXCEPT !.i = @ + 1]
          /\ MapGet(OptimalRun[j + 1].nextUseCursor, pageReferences[j + 1])
                < Len(pagePositions[pageReferences[j + 1]])
          /\ pagePositions[pageReferences[j + 1]]
                [MapGet(OptimalRun[j + 1].nextUseCursor, pageReferences[j + 1]) + 1]
                <= j


\* ------------------------------------------------------------- resident count
Smaller(a, b) == IF a < b THEN a ELSE b

\* The set and the frames of st hold min(pageFaults, frames) pages.
ResidentIsMin(st, frames) ==
    /\ Cardinality(st.pageInMmemorySet) = Smaller(st.result.pageFaults, frames)
    /\ Len(st.memoryFrames) = Smaller(st.result.pageFaults, frames)

\* C18: with numFrames >= 1, after every step of either simulator the number
\* of resident pages is min(pageFaults, numFrames): a step adds at most one
\* fault, the count grows with each of the first numFrames misses, and once it
\* is numFrames it stays numFrames to the end of the run.
C18_ResidentCount ==
    [][numFrames' >= 1 =>
        /\ ResidentIsMin(fifo', numFrames')
        /\ ResidentIsMin(optimal', numFrames')
        /\ (pc = "fifo" /\ pc' = "fifo") =>
              /\ fifo'.result.pageFaults - fifo.result.pageFaults \in {0, 1}
              /\ Len(fifo.memoryFrames) = numFrames
                    => Len(fifo'.memoryFrames) = numFrames
        /\ (pc = "optimal" /\ pc' = "optimal") =>
              /\ optimal'.result.pageFaults - optimal.result.pageFaults \in {0, 1}
              /\ Len(optimal.memoryFrames) = numFrames
                    => Len(optimal'.memoryFrames) = numFrames]_vars

\* Both runs are over, each with more faults than the three or more frames,
\* all of which are taken, and FIFO faulted more often than Optimal.
C18_Witness ==
    /\ pc = "report"
    /\ numFrames >= 3
    /\ optimalResult.pageFaults > numFrames
    /\ fifoResult.pageFaults > optimalResult.pageFaults
    /\ Cardinality(fifo.pageInMmemorySet) = numFrames
    /\ Cardinality(optimal.pageInMmemorySet) = numFrames


\* ------------------------------------------------------------- concurrent runs
\* fifoAlgorithm's loop works on the set, the list and the result declared in
\* its own body, whatever another simulator running at the same time holds.
FifoLocalsShared(own, other) ==
    [own EXCEPT !.pageInMmemorySet = other.pageInMmemorySet]
FifoLocals(own, other) == own

\* optimalAlgorithmOptimized's locals, likewise.
OptimalLocals(own, other) == own

\* A caller that holds a loaded trace and its position index and has entered
\* both simulators on them at once; their loop iterations interleave freely.
InitConcurrent ==
    /\ memorySizeStr = [valid |-> FALSE, num |-> 0, unit |-> ""]
    /\ didacticMode = FALSE
    /\ pc = "both"
    /\ physicalMemoryBytes = 0
    /\ pageReferences \in Traces
    /\ pagePositions = BuildPositions(pageReferences, 0, EmptyMap)
    /\ numFrames \in 1..MaxFrames
    /\ distinctPagesCount = Cardinality(Range(pageReferences))
    /\ optimal = OptimalEntry(OptimalEnter)
    /\ fifo = FifoEntry(FifoEnter)
    /\ optimalResult = ZeroResult
    /\ fifoResult = ZeroResult
    /\ stdout = <<>>
    /\ calls = 0
    /\ returned = <<>>

\* One iteration of optimalAlgorithmOptimized's loop while fifoAlgorithm is
\* under way as well.
ConcurrentOptimalIteration ==
    /\ pc = "both"
    /\ optimal.i < Len(pageReferences)
    /\ optimal' = OptimalBody(OptimalLocals(optimal, fifo),
                              pageReferences[optimal.i + 1], numFrames,
                              pagePositions, didacticMode)
    /\ UNCHANGED <<memorySizeStr, didacticMode, pc, physicalMemoryBytes,
                   pageReferences, pagePositions, numFrames, distinctPagesCount,
                   fifo, optimalResult, fifoResult, stdout, calls, returned>>

\* One iteration of fifoAlgorithm's loop while optimalAlgorithmOptimized is
\* under way as well.
ConcurrentFifoIteration ==
    /\ pc = "both"
    /\ fifo.i < Len(pageReferences)
    /\ fifo' = FifoBody(FifoLocals(fifo, optimal), pageReferences[fifo.i + 1],
                        numFrames, didacticMode)
    /\ UNCHANGED <<memorySizeStr, didacticMode, pc, physicalMemoryBytes,
                   pageReferences, pagePositions, numFrames, distinctPagesCount,
                   optimal, optimalResult, fifoResult, stdout, calls, returned>>

\* Both have returned; the caller takes the two results.
ConcurrentJoin ==
    /\ pc = "both"
    /\ optimal.i >= Len(pageReferences)
    /\ fifo.i >= Len(pageReferences)
    /\ optimalResult' = optimal.result
    /\ fifoResult' = fifo.result
    /\ pc' = "joined"
    /\ UNCHANGED <<memorySizeStr, didacticMode, physicalMemoryBytes, pageReferences,
                   pagePositions, numFrames, distinctPagesCount, optimal, fifo,
                   stdout, calls, returned>>

NextConcurrent ==
    \/ ConcurrentOptimalIteration
    \/ ConcurrentFifoIteration
    \/ ConcurrentJoin

SpecConcurrent == InitConcurrent /\ [][NextConcurrent]_vars

\* C19: no step of either simulator changes the trace or the position index,
\* and however the steps of the two are ordered (one first, the other first,
\* or interleaved) each simulator is left where a run of its own, alone,
\* stands after as many references, and the results taken in the end are
\* those of the two runs alone.
C19_RunsAreIndependent ==
    [][/\ UNCHANGED <<pageReferences, pagePositions, numFrames>>
       /\ pagePositions = BuildPositions(pageReferences, 0, EmptyMap)
       /\ fifo' = FifoRun[fifo'.i + 1]
       /\ optimal' = OptimalRun[optimal'.i + 1]
       /\ pc' = "joined" =>
             /\ fifoResult' = fifoAlgorithm(pageReferences, numFrames,
                                            didacticMode)
             /\ optimalResult' =
                   optimalAlgorithmOptimized(pageReferences, numFrames,
                                             pagePositions, didacticMode)]_vars

\* Both simulators are in the middle of their runs at once, each past an
\* eviction, holding different pages, and FIFO is ahead of Optimal.
C19_Witness ==
    /\ pc = "both"
    /\ optimal.i >= 1
    /\ fifo.i > optimal.i
    /\ fifo.i < Len(pageReferences)
    /\ fifo.result.pageFaults > numFrames
    /\ optimal.result.pageFaults > numFrames
    /\ fifo.pageInMmemorySet # optimal.pageInMmemorySet


\* ------------------------------------------------------------- set and frames
\* The set of st holds exactly the pages of its frames, each in one frame.
SetMirrorsFrames(st) ==
    /\ st.pageInMmemorySet = Range(st.memoryFrames)
    /\ \A a, b \in 1..Len(st.memoryFrames) :
          st.memoryFrames[a] = st.memoryFrames[b] => a = b

\* The page of the reference st has just handled is resident.
ReferencedIsResident(st) ==
    (st.i >= 1 /\ st.i <= Len(pageReferences))
        => pageReferences[st.i] \in st.pageInMmemorySet

\* C20: with numFrames >= 1, after every step of either simulator
\* pageInMmemorySet is exactly the set of pages in the frames, no page is in
\* two frames, and the page just referenced is resident.
C20_SetMirrorsFrames ==
    numFrames >= 1 =>
        /\ SetMirrorsFrames(fifo)
        /\ SetMirrorsFrames(optimal)
        /\ ReferencedIsResident(fifo)
        /\ ReferencedIsResident(optimal)

\* FIFO is in its loop with two or more frames, has evicted, and has just
\* referenced a page that Optimal, having evicted too, did not keep to the end.
C20_Witness ==
    /\ pc = "fifo"
    /\ numFrames >= 2
    /\ fifo.i >= 1
    /\ fifo.result.pageFaults > numFrames
    /\ optimal.result.pageFaults > numFrames
    /\ pageReferences[fifo.i] \in fifo.pageInMmemorySet
    /\ pageReferences[fifo.i] \notin optimal.pageInMmemorySet

====
